---------------------------- MODULE Spec2Model ----------------------------
(***************************************************************************)
(* A state-machine model of SceneManager (Source/SceneManager.cpp): the    *)
(* texture registry, the material registry, the shader-uniform helpers and *)
(* the transform composer.  The OpenGL context, the image decoder and the  *)
(* shader manager are collaborators; they are modelled by the part of      *)
(* their state the scene manager changes (texture names, texture-unit      *)
(* bindings, live image buffers, uniform values).                          *)
(*                                                                         *)
(* Floating-point values are written in thousandths (0.25 is 250).         *)
(***************************************************************************)
EXTENDS Integers, Sequences, FiniteSets, TLC

VARIABLES
    m_pShaderManager,   \* "NULL" or "shader": the constructor's argument
    m_textureIDs,       \* the TEXTURE_INFO array, slot i at position i + 1
    m_textureOverflow,  \* entries stored past the end of m_textureIDs
    m_loadedTextures,   \* number of registered textures
    m_objectMaterials,  \* the std::vector<OBJECT_MATERIAL>
    meshesLoaded,       \* m_basicMeshes: the meshes whose Load...Mesh has run
    uniforms,           \* the shader's uniform values, by name
    disk,               \* image files: file name -> channel count, 0 = undecodable
    glNextName,         \* the next texture name glGenTextures hands out
    glDeleted,          \* texture names released with glDeleteTextures
    glActiveUnit,       \* the active texture unit
    glBound,            \* texture unit -> name bound to GL_TEXTURE_2D
    stbiLive,           \* decoded image buffers not yet freed
    status,             \* "running", or "crashed" after a fatal fault
    ub,                 \* TRUE once undefined behaviour has been executed
    lastCall,           \* history: the last operation, its tag/file and result
    lastXform,          \* history: the arguments of the last SetTransformations
    lastDraw,           \* history: the uniforms the last draw call saw
    lastSelect,         \* history: last of SetShaderColor / SetShaderTexture
    outMaterial,        \* history: FindMaterial's out parameter after the last call
    loadLog,            \* history: <<tag, ID>> of every successful load, in order
    calls,              \* history: how often each bounded operation was called
    pc,                 \* RenderScene's position: 0 outside it, else the next call
    renderLog           \* history: RenderScene's calls since its previous draw

texVars == <<m_textureIDs, m_textureOverflow, m_loadedTextures>>
glVars == <<glNextName, glDeleted, glActiveUnit, glBound, stbiLive>>
histVars == <<lastXform, lastDraw, lastSelect, outMaterial>>
renderVars == <<pc, renderLog>>

vars ==
    <<m_pShaderManager, m_textureIDs, m_textureOverflow, m_loadedTextures,
      m_objectMaterials, meshesLoaded, uniforms, disk, glNextName, glDeleted,
      glActiveUnit, glBound, stbiLive, status, ub, lastCall, lastXform,
      lastDraw, lastSelect, outMaterial, loadLog, calls, pc, renderLog>>

---------------------------------------------------------------------------
(* Program constants *)

\* "There are up to 16 slots": the length of m_textureIDs.
MaxTextureSlots == 16

\* The value FindTextureSlot and FindTextureID start from and return on a miss.
NotFound == -1

(* Bounds of the model *)

\* Direct CreateGLTexture calls per run.
MaxCreateCalls == 3
\* LoadSceneTextures / PrepareScene calls per run.
MaxSceneLoads == 1
\* DestroyGLTextures calls per run.
MaxDestroyCalls == 1
\* DefineObjectMaterials calls per run.
MaxDefineCalls == 2
\* CreateGLTexture calls per run where the shader helpers are exercised.
MaxShaderTextures == 2

---------------------------------------------------------------------------
(* The image files and what stbi_load makes of them *)

\* The (file, tag) pairs LoadSceneTextures passes to CreateGLTexture, in order.
SceneTextures ==
    << [file |-> "textures/granite_texture.jpg",      tag |-> "island top"],
       [file |-> "textures/plaster_texture.jpg",      tag |-> "island stand"],
       [file |-> "textures/wicker_light_texture.jpg", tag |-> "stand base"],
       [file |-> "textures/light_wood_texture.jpg",   tag |-> "top torus"],
       [file |-> "textures/bamboo_texture.jpg",       tag |-> "torus"],
       [file |-> "textures/granite_texture.jpg",      tag |-> "island top"],
       [file |-> "textures/wood_shiny_texture.jpg",   tag |-> "bottom torus"],
       [file |-> "textures/wood_floor_texture.jpg",   tag |-> "floor"],
       [file |-> "textures/matte_black_metal.jpg",    tag |-> "candle snuffer"],
       [file |-> "textures/ceramic_texture.jpg",      tag |-> "pottery"],
       [file |-> "textures/leather_texture1.jpg",     tag |-> "fruit"],
       [file |-> "textures/paper_texture2.jpg",       tag |-> "paper"],
       [file |-> "textures/wax_texture.jpg",          tag |-> "wax"],
       [file |-> "textures/dark_wood_texture1.jpg",   tag |-> "dark wood"],
       [file |-> "textures/stainless.jpg",            tag |-> "steel"] >>

SceneFiles == { SceneTextures[i].file : i \in 1..Len(SceneTextures) }

\* Files a caller other than LoadSceneTextures passes: an RGB image, an RGBA
\* image, a grey-scale image (one channel) and a file that does not decode.
CallerFiles == {"rgb.jpg", "rgba.png", "grey.png", "missing.jpg"}

Files == SceneFiles \cup CallerFiles

\* The tags such a caller passes, and a tag nobody registers.
CallerTags == {"a", "b"}
AbsentTag == "c"

CallerDisk(f) ==
    CASE f = "rgb.jpg" -> 3
      [] f = "rgba.png" -> 4
      [] f = "grey.png" -> 1
      [] OTHER -> 0

\* The disks a run may start with: every scene image an RGB file; one of them
\* missing; one of them grey-scale with alpha (2 channels); one of them RGBA.
DiskChoices ==
    { [f \in Files |-> IF f \in CallerFiles THEN CallerDisk(f)
                       ELSE IF f = odd[1] THEN odd[2] ELSE 3] :
        odd \in { <<"none", 3>>,
                  <<"textures/plaster_texture.jpg", 0>>,
                  <<"textures/bamboo_texture.jpg", 2>>,
                  <<"textures/wax_texture.jpg", 4>> } }

---------------------------------------------------------------------------
(* The texture registry.  CreateGLTexture, BindGLTextures and              *)
(* DestroyGLTextures are also steps of LoadSceneTextures, so each is an    *)
(* operator from a texture state to a texture state; the actions below     *)
(* apply them to the variables.                                            *)

EmptySlot == [ID |-> 0, tag |-> ""]

TexState ==
    [ids |-> m_textureIDs, over |-> m_textureOverflow, loaded |-> m_loadedTextures,
     next |-> glNextName, active |-> glActiveUnit, bound |-> glBound,
     live |-> stbiLive, status |-> status, ub |-> ub, log |-> loadLog,
     ret |-> FALSE]

\* m_textureIDs[index] of texture state s; an index past the array reads the
\* memory the overflowing stores wrote.
SlotOf(s, index) ==
    IF index < MaxTextureSlots THEN s.ids[index + 1]
    ELSE s.over[index - MaxTextureSlots + 1]

\* glBindTexture(GL_TEXTURE_2D, name) on the active unit.
GLBind(s, name) ==
    [u \in DOMAIN s.bound \cup {s.active} |->
        IF u = s.active THEN name ELSE s.bound[u]]

\* Lines 112-115: the registration.  A store at an index past the array is
\* undefined behaviour: with oob = "continue" it lands in the memory behind
\* the array, with oob = "crash" the process dies at the store.
RegisterTexture(s, textureID, tag, oob) ==
    LET e == [ID |-> textureID, tag |-> tag] IN
    IF s.loaded < MaxTextureSlots
    THEN [s EXCEPT !.ids[s.loaded + 1] = e,
                   !.loaded = s.loaded + 1,
                   !.log = Append(s.log, <<tag, textureID>>),
                   !.ret = TRUE]
    ELSE IF oob = "crash"
    THEN [s EXCEPT !.ub = TRUE, !.status = "crashed", !.ret = FALSE]
    ELSE [s EXCEPT !.ub = TRUE,
                   !.over = Append(s.over, e),
                   !.loaded = s.loaded + 1,
                   !.log = Append(s.log, <<tag, textureID>>),
                   !.ret = TRUE]

\* A faulty variant of CreateGLTextureOn: the registration is done before the channel
\* count is looked at, so an image with an unsupported count is registered.
CreateGLTextureOn_RegistersFirst(s, filename, tag, oob) ==
    IF s.status # "running" THEN s
    ELSE IF disk[filename] = 0 THEN [s EXCEPT !.ret = FALSE]
    ELSE LET g == [s EXCEPT !.next = s.next + 1,
                            !.bound = GLBind(s, s.next),
                            !.live = s.live + 1]
             r == RegisterTexture(g, s.next, tag, oob)
         IN IF disk[filename] \in {3, 4}
            THEN [r EXCEPT !.live = r.live - 1, !.bound = GLBind(r, 0)]
            ELSE [r EXCEPT !.ret = FALSE]

\* CreateGLTexture(filename, tag) on texture state s; .ret is its result.
CreateGLTextureOn(s, filename, tag, oob) ==
    IF s.status # "running" THEN s
    ELSE IF disk[filename] = 0
    THEN \* stbi_load returned NULL: "Could not load image"
         [s EXCEPT !.ret = FALSE]
    ELSE LET \* glGenTextures, glBindTexture; the image buffer is live
             g == [s EXCEPT !.next = s.next + 1,
                            !.bound = GLBind(s, s.next),
                            !.live = s.live + 1]
         IN IF disk[filename] \in {3, 4}
            THEN \* stbi_image_free, unbind, register
                 LET f == [g EXCEPT !.live = g.live - 1,
                                    !.bound = GLBind(g, 0)]
                 IN RegisterTexture(f, s.next, tag, oob)
            ELSE \* "Not implemented to handle image with n channels"
                 [g EXCEPT !.ret = FALSE]

\* A faulty variant of BindGLTexturesOn: glActiveTexture is never called, so
\* every texture is bound on the unit that is active.
BindGLTexturesOn_OneUnit(s) ==
    IF s.status # "running" \/ s.loaded = 0 THEN s
    ELSE [s EXCEPT !.bound = [s.bound EXCEPT
                                ![s.active] = SlotOf(s, s.loaded - 1).ID]]

\* BindGLTextures: texture i of the registry on texture unit i.
BindGLTexturesOn(s) ==
    IF s.status # "running" \/ s.loaded = 0 THEN s
    ELSE [s EXCEPT !.active = s.loaded - 1,
                   !.bound = [u \in DOMAIN s.bound \cup 0..(s.loaded - 1) |->
                                 IF u < s.loaded THEN SlotOf(s, u).ID
                                 ELSE s.bound[u]]]

\* DestroyGLTextures: glGenTextures(1, &m_textureIDs[i].ID) for every
\* registered i: each entry's ID is overwritten with a newly generated name.
DestroyGLTexturesOn(s) ==
    IF s.status # "running" THEN s
    ELSE [s EXCEPT
            !.ids = [p \in DOMAIN s.ids |->
                        IF p <= s.loaded
                        THEN [s.ids[p] EXCEPT !.ID = s.next + p - 1]
                        ELSE s.ids[p]],
            !.over = [p \in DOMAIN s.over |->
                        [s.over[p] EXCEPT !.ID = s.next + MaxTextureSlots + p - 1]],
            !.next = s.next + s.loaded]

RECURSIVE LoadAll(_, _, _)
\* The CreateGLTexture calls i, i + 1, ... of LoadSceneTextures.
LoadAll(s, i, oob) ==
    IF i > Len(SceneTextures) THEN s
    ELSE LoadAll(CreateGLTextureOn(s, SceneTextures[i].file, SceneTextures[i].tag, oob),
                 i + 1, oob)

\* LoadSceneTextures: the fifteen loads, then BindGLTextures.
LoadSceneTexturesOn(s, oob) ==
    BindGLTexturesOn(LoadAll(s, 1, oob))

\* The texture state s written back to the variables.
StoreTex(s) ==
    /\ m_textureIDs' = s.ids
    /\ m_textureOverflow' = s.over
    /\ m_loadedTextures' = s.loaded
    /\ glNextName' = s.next
    /\ glActiveUnit' = s.active
    /\ glBound' = s.bound
    /\ stbiLive' = s.live
    /\ status' = s.status
    /\ ub' = s.ub
    /\ loadLog' = s.log
    /\ glDeleted' = glDeleted

RECURSIVE FindTextureIDFrom(_, _)
FindTextureIDFrom(index, tag) ==
    IF index < m_loadedTextures
    THEN IF SlotOf(TexState, index).tag = tag THEN SlotOf(TexState, index).ID
         ELSE FindTextureIDFrom(index + 1, tag)
    ELSE NotFound

\* FindTextureID(tag): the GL name of the first entry with the tag.
FindTextureID(tag) ==
    FindTextureIDFrom(0, tag)

RECURSIVE FindTextureSlotFrom(_, _)
\* The while loop of FindTextureSlot from position index on.
FindTextureSlotFrom(index, tag) ==
    IF index < m_loadedTextures
    THEN IF SlotOf(TexState, index).tag = tag THEN index
         ELSE FindTextureSlotFrom(index + 1, tag)
    ELSE NotFound

\* A faulty variant of FindTextureSlot: it returns the texture's GL name, as
\* FindTextureID does, where the slot index is asked for.
FindTextureSlot_ReturnsID(tag) ==
    FindTextureIDFrom(0, tag)

\* FindTextureSlot(tag): the index of the first entry with the tag, or -1.
FindTextureSlot(tag) ==
    FindTextureSlotFrom(0, tag)

---------------------------------------------------------------------------
(* The material registry *)

\* Values an uninitialised float may hold.
GarbageFloats == {0, 123456}

MaterialAttributes ==
    {"ambientColor", "ambientStrength", "diffuseColor", "specularColor", "shininess"}

\* A local OBJECT_MATERIAL before any assignment: the tag is an empty string,
\* the five attributes hold whatever the stack held (g); assigned is the set
\* of attributes that have been given a value.
UninitMaterial(g) ==
    [tag |-> "", ambientColor |-> <<g, g, g>>, ambientStrength |-> g,
     diffuseColor |-> <<g, g, g>>, specularColor |-> <<g, g, g>>,
     shininess |-> g, assigned |-> {}]

\* A material with all five attributes and the tag assigned.
Material(tag, ambientColor, ambientStrength, diffuseColor, specularColor, shininess) ==
    [tag |-> tag, ambientColor |-> ambientColor, ambientStrength |-> ambientStrength,
     diffuseColor |-> diffuseColor, specularColor |-> specularColor,
     shininess |-> shininess, assigned |-> MaterialAttributes]

\* DefineObjectMaterials: the seven push_backs.  ceramicMaterial.shininess is
\* never assigned (line 495 assigns glassMaterial.shininess, after the copy
\* of glassMaterial was pushed), so the ceramic entry keeps the garbage g.
DefineObjectMaterialsOn(mats, g) ==
    LET metalMaterial ==
            Material("metal", <<300, 300, 300>>, 500, <<250, 250, 250>>,
                     <<400, 400, 400>>, 30000)
        woodMaterial ==
            Material("wood", <<200, 200, 200>>, 250, <<400, 400, 400>>,
                     <<150, 150, 150>>, 300)
        glassMaterial ==
            Material("glass", <<400, 400, 400>>, 300, <<300, 300, 300>>,
                     <<600, 600, 600>>, 85000)
        ceramicMaterial ==
            [UninitMaterial(g) EXCEPT
                !.ambientColor = <<600, 600, 600>>,
                !.ambientStrength = 250,
                !.diffuseColor = <<860, 820, 780>>,
                !.specularColor = <<0, 0, 0>>,
                !.tag = "ceramic",
                !.assigned = MaterialAttributes \ {"shininess"}]
        wallingMaterial ==
            Material("walling", <<450, 450, 450>>, 700, <<400, 500, 350>>,
                     <<100, 100, 100>>, 0)
        leatherMaterial ==
            Material("leather", <<560, 450, 113>>, 200, <<760, 640, 200>>,
                     <<760, 640, 200>>, 0)
        paperMaterial ==
            Material("parchment", <<490, 410, 280>>, 200, <<690, 630, 530>>,
                     <<850, 800, 690>>, 500)
    IN mats \o <<metalMaterial, woodMaterial, glassMaterial, ceramicMaterial,
                 wallingMaterial, leatherMaterial, paperMaterial>>

RECURSIVE FindMaterialFrom(_, _)
\* The while loop of FindMaterial from position index (0-based) on: the
\* position of the first entry with the tag, or the size of the vector.
FindMaterialFrom(index, tag) ==
    IF index < Len(m_objectMaterials)
    THEN IF m_objectMaterials[index + 1].tag = tag THEN index
         ELSE FindMaterialFrom(index + 1, tag)
    ELSE index

RECURSIVE LastMaterialFrom(_, _)
LastMaterialFrom(index, tag) ==
    IF index >= 0
    THEN IF m_objectMaterials[index + 1].tag = tag THEN index
         ELSE LastMaterialFrom(index - 1, tag)
    ELSE Len(m_objectMaterials)

\* A faulty variant of FindMaterial: the loop does not stop at the first match, so
\* the attributes copied last are those of the last entry with the tag.
FindMaterial_LastMatch(tag, material) ==
    IF Len(m_objectMaterials) = 0 THEN [ret |-> FALSE, material |-> material]
    ELSE LET index == LastMaterialFrom(Len(m_objectMaterials) - 1, tag) IN
         IF index < Len(m_objectMaterials)
         THEN [ret |-> TRUE,
               material |-> [m_objectMaterials[index + 1] EXCEPT !.tag = material.tag]]
         ELSE [ret |-> TRUE, material |-> material]

\* FindMaterial(tag, material): .ret is the result, .material the out
\* parameter afterwards.  The five attributes are copied, the tag is not.
\* With a non-empty vector the function returns true, match or no match.
FindMaterial(tag, material) ==
    IF Len(m_objectMaterials) = 0 THEN [ret |-> FALSE, material |-> material]
    ELSE LET index == FindMaterialFrom(0, tag) IN
         IF index < Len(m_objectMaterials)
         THEN [ret |-> TRUE,
               material |-> [m_objectMaterials[index + 1] EXCEPT !.tag = material.tag]]
         ELSE [ret |-> TRUE, material |-> material]

---------------------------------------------------------------------------
(* The shader manager's uniforms *)

\* set...Value(name, value) on the uniform store u.
SetUniform(u, name, value) ==
    [n \in DOMAIN u \cup {name} |-> IF n = name THEN value ELSE u[n]]

RECURSIVE SetUniforms(_, _)
\* The pairs <<name, value>> of a sequence set one after the other.
SetUniforms(u, pairs) ==
    IF pairs = <<>> THEN u
    ELSE SetUniforms(SetUniform(u, Head(pairs)[1], Head(pairs)[2]), Tail(pairs))

MaterialUniforms ==
    {"material.ambientColor", "material.ambientStrength", "material.diffuseColor",
     "material.specularColor", "material.shininess"}

\* The five setVec3Value / setFloatValue calls of SetShaderMaterial.
PushMaterial(u, material) ==
    SetUniforms(u, << <<"material.ambientColor", material.ambientColor>>,
                      <<"material.ambientStrength", material.ambientStrength>>,
                      <<"material.diffuseColor", material.diffuseColor>>,
                      <<"material.specularColor", material.specularColor>>,
                      <<"material.shininess", material.shininess>> >>)

\* The uniforms SetupSceneLights sets.
PushLights(u) ==
    SetUniforms(u, << <<"bUseLighting", 1>>,
                      <<"lightSources[0].position", <<0, 15000, 2000>> >>,
                      <<"lightSources[0].ambientColor", <<50, 50, 50>> >>,
                      <<"lightSources[0].diffuseColor", <<800, 800, 800>> >>,
                      <<"lightSources[0].specularColor", <<200, 200, 200>> >>,
                      <<"lightSources[0].focalStrength", 20000>>,
                      <<"lightSources[0].specularIntensity", 100>>,
                      <<"lightSources[1].position", <<-4000, 12000, 3000>> >>,
                      <<"lightSources[1].ambientColor", <<100, 100, 100>> >>,
                      <<"lightSources[1].diffuseColor", <<250, 250, 250>> >>,
                      <<"lightSources[1].specularColor", <<0, 0, 0>> >>,
                      <<"lightSources[1].focalStrength", 15000>>,
                      <<"lightSources[1].specularIntensity", 100>> >>)

\* A faulty variant of ShaderTextureUniforms: the texture-use flag is left alone.
ShaderTextureUniforms_NoFlag(u, textureTag) ==
    SetUniform(u, "objectTexture", FindTextureSlot(textureTag))

\* SetShaderTexture's two stores: bUseTexture = true, then objectTexture =
\* FindTextureSlot(textureTag), found or not.
ShaderTextureUniforms(u, textureTag) ==
    SetUniform(SetUniform(u, "bUseTexture", 1),
               "objectTexture", FindTextureSlot(textureTag))

\* SetShaderColor's two stores: bUseTexture = false, then objectColor.
ShaderColorUniforms(u, currentColor) ==
    SetUniform(SetUniform(u, "bUseTexture", 0), "objectColor", currentColor)

---------------------------------------------------------------------------
(* The transform composer.  glm's matrices are written by rows; angles are *)
(* whole quarter turns, for which sine and cosine are taken as exact.      *)

CosDeg(d) ==
    CASE d % 360 = 0 -> 1
      [] d % 360 = 90 -> 0
      [] d % 360 = 180 -> -1
      [] d % 360 = 270 -> 0

SinDeg(d) ==
    CASE d % 360 = 0 -> 0
      [] d % 360 = 90 -> 1
      [] d % 360 = 180 -> 0
      [] d % 360 = 270 -> -1

\* Row i of A times column j of B.
Mat4Dot(A, B, i, j) ==
    A[i][1] * B[1][j] + A[i][2] * B[2][j] + A[i][3] * B[3][j] + A[i][4] * B[4][j]

Mat4Row(A, B, i) ==
    <<Mat4Dot(A, B, i, 1), Mat4Dot(A, B, i, 2), Mat4Dot(A, B, i, 3), Mat4Dot(A, B, i, 4)>>

\* The product A * B of two 4x4 matrices.
Mat4Mul(A, B) ==
    <<Mat4Row(A, B, 1), Mat4Row(A, B, 2), Mat4Row(A, B, 3), Mat4Row(A, B, 4)>>

\* The matrix M applied to the point p = <<x, y, z>> (w = 1).
Mat4Coord(M, p, i) ==
    M[i][1] * p[1] + M[i][2] * p[2] + M[i][3] * p[3] + M[i][4]

Mat4Point(M, p) ==
    <<Mat4Coord(M, p, 1), Mat4Coord(M, p, 2), Mat4Coord(M, p, 3)>>

\* glm::scale(v)
GlmScale(v) ==
    << <<v[1], 0, 0, 0>>, <<0, v[2], 0, 0>>, <<0, 0, v[3], 0>>, <<0, 0, 0, 1>> >>

\* glm::translate(v)
GlmTranslate(v) ==
    << <<1, 0, 0, v[1]>>, <<0, 1, 0, v[2]>>, <<0, 0, 1, v[3]>>, <<0, 0, 0, 1>> >>

\* glm::rotate(glm::radians(degrees), axis) for a unit axis.
GlmRotate(degrees, axis) ==
    LET c == CosDeg(degrees)
        s == SinDeg(degrees)
        temp == <<(1 - c) * axis[1], (1 - c) * axis[2], (1 - c) * axis[3]>>
    IN << <<c + temp[1] * axis[1],
            temp[2] * axis[1] - s * axis[3],
            temp[3] * axis[1] + s * axis[2], 0>>,
          <<temp[1] * axis[2] + s * axis[3],
            c + temp[2] * axis[2],
            temp[3] * axis[2] - s * axis[1], 0>>,
          <<temp[1] * axis[3] - s * axis[2],
            temp[2] * axis[3] + s * axis[1],
            c + temp[3] * axis[3], 0>>,
          <<0, 0, 0, 1>> >>

\* A faulty variant of ModelMatrix: the factors multiplied in the opposite order.
ModelMatrix_Reversed(scaleXYZ, Xdeg, Ydeg, Zdeg, positionXYZ) ==
    Mat4Mul(GlmScale(scaleXYZ),
      Mat4Mul(GlmRotate(Zdeg, <<0, 0, 1>>),
        Mat4Mul(GlmRotate(Ydeg, <<0, 1, 0>>),
          Mat4Mul(GlmRotate(Xdeg, <<1, 0, 0>>), GlmTranslate(positionXYZ)))))

\* A faulty variant of ModelMatrix: the three rotations multiplied as Z * Y * X.
ModelMatrix_RotationZYX(scaleXYZ, Xdeg, Ydeg, Zdeg, positionXYZ) ==
    Mat4Mul(GlmTranslate(positionXYZ),
      Mat4Mul(GlmRotate(Zdeg, <<0, 0, 1>>),
        Mat4Mul(GlmRotate(Ydeg, <<0, 1, 0>>),
          Mat4Mul(GlmRotate(Xdeg, <<1, 0, 0>>), GlmScale(scaleXYZ)))))

\* modelView = translation * rotationX * rotationY * rotationZ * scale
ModelMatrix(scaleXYZ, Xdeg, Ydeg, Zdeg, positionXYZ) ==
    Mat4Mul(GlmTranslate(positionXYZ),
      Mat4Mul(GlmRotate(Xdeg, <<1, 0, 0>>),
        Mat4Mul(GlmRotate(Ydeg, <<0, 1, 0>>),
          Mat4Mul(GlmRotate(Zdeg, <<0, 0, 1>>), GlmScale(scaleXYZ)))))

---------------------------------------------------------------------------
(* The state after construction *)

\* The registry members as SceneManager.h declares them (the constructor
\* assigns none of them): an array of MaxTextureSlots entries, no texture
\* loaded, no material defined.
RegistryAtConstruction ==
    /\ m_textureIDs = [p \in 1..MaxTextureSlots |-> EmptySlot]
    /\ m_textureOverflow = <<>>
    /\ m_loadedTextures = 0
    /\ m_objectMaterials = <<>>

\* The constructor stores its argument and allocates the meshes; the GL
\* context and the shader program are fresh.
Init ==
    /\ m_pShaderManager \in {"NULL", "shader"}
    /\ RegistryAtConstruction
    /\ meshesLoaded = {}
    /\ uniforms = <<>>
    /\ disk \in DiskChoices
    /\ glNextName = 1
    /\ glDeleted = {}
    /\ glActiveUnit = 0
    /\ glBound = [u \in {0} |-> 0]
    /\ stbiLive = 0
    /\ status = "running"
    /\ ub = FALSE
    /\ lastCall = [op |-> "constructor", tag |-> "", file |-> "", ok |-> TRUE, ret |-> 0]
    /\ lastXform = <<>>
    /\ lastDraw = [mesh |-> "", useTexture |-> 0]
    /\ lastSelect = "none"
    /\ outMaterial = UninitMaterial(0)
    /\ loadLog = <<>>
    /\ calls = [create |-> 0, scene |-> 0, destroy |-> 0, define |-> 0]
    /\ pc = 0
    /\ renderLog = <<>>

Call(op, tag, file, ok, ret) ==
    [op |-> op, tag |-> tag, file |-> file, ok |-> ok, ret |-> ret]

Faults == {"crash", "continue"}

\* A call through the null m_pShaderManager: undefined behaviour.  The
\* process dies there (fault = "crash") or carries on with nothing stored.
NullSink(fault) ==
    /\ ub' = TRUE
    /\ status' = IF fault = "crash" THEN "crashed" ELSE status

---------------------------------------------------------------------------
(* Operations of the texture registry *)

CreateGLTexture(filename, tag, oob, limit) ==
    /\ status = "running"
    /\ calls.create < limit
    /\ LET s == CreateGLTextureOn(TexState, filename, tag, oob) IN
        /\ StoreTex(s)
        /\ lastCall' = Call("CreateGLTexture", tag, filename, s.ret, 0)
    /\ calls' = [calls EXCEPT !.create = @ + 1]
    /\ UNCHANGED <<m_pShaderManager, m_objectMaterials, meshesLoaded, uniforms,
                   disk, histVars>>

BindGLTextures ==
    /\ status = "running"
    /\ StoreTex(BindGLTexturesOn(TexState))
    /\ lastCall' = Call("BindGLTextures", "", "", TRUE, 0)
    /\ UNCHANGED <<m_pShaderManager, m_objectMaterials, meshesLoaded, uniforms,
                   disk, histVars, calls>>

DestroyGLTextures ==
    /\ status = "running"
    /\ calls.destroy < MaxDestroyCalls
    /\ StoreTex(DestroyGLTexturesOn(TexState))
    /\ lastCall' = Call("DestroyGLTextures", "", "", TRUE, 0)
    /\ calls' = [calls EXCEPT !.destroy = @ + 1]
    /\ UNCHANGED <<m_pShaderManager, m_objectMaterials, meshesLoaded, uniforms,
                   disk, histVars>>

LoadSceneTextures(oob) ==
    /\ status = "running"
    /\ calls.scene < MaxSceneLoads
    /\ StoreTex(LoadSceneTexturesOn(TexState, oob))
    /\ lastCall' = Call("LoadSceneTextures", "", "", TRUE, 0)
    /\ calls' = [calls EXCEPT !.scene = @ + 1]
    /\ UNCHANGED <<m_pShaderManager, m_objectMaterials, meshesLoaded, uniforms,
                   disk, histVars>>

FindTextureSlotCall(tag) ==
    /\ status = "running"
    /\ lastCall' = Call("FindTextureSlot", tag, "", TRUE, FindTextureSlot(tag))
    /\ UNCHANGED <<m_pShaderManager, texVars, m_objectMaterials, meshesLoaded,
                   uniforms, disk, glVars, status, ub, histVars, loadLog, calls>>

FindTextureIDCall(tag) ==
    /\ status = "running"
    /\ lastCall' = Call("FindTextureID", tag, "", TRUE, FindTextureID(tag))
    /\ UNCHANGED <<m_pShaderManager, texVars, m_objectMaterials, meshesLoaded,
                   uniforms, disk, glVars, status, ub, histVars, loadLog, calls>>

---------------------------------------------------------------------------
(* Operations of the material registry and the shader helpers *)

DefineObjectMaterials(g) ==
    /\ status = "running"
    /\ calls.define < MaxDefineCalls
    /\ m_objectMaterials' = DefineObjectMaterialsOn(m_objectMaterials, g)
    /\ lastCall' = Call("DefineObjectMaterials", "", "", TRUE, 0)
    /\ calls' = [calls EXCEPT !.define = @ + 1]
    /\ UNCHANGED <<m_pShaderManager, texVars, meshesLoaded, uniforms, disk,
                   glVars, status, ub, histVars, loadLog>>

\* FindMaterial called with a caller's uninitialised OBJECT_MATERIAL.
FindMaterialCall(tag, g) ==
    /\ status = "running"
    /\ LET r == FindMaterial(tag, UninitMaterial(g)) IN
        /\ outMaterial' = r.material
        /\ lastCall' = Call("FindMaterial", tag, "", r.ret, 0)
    /\ UNCHANGED <<m_pShaderManager, texVars, m_objectMaterials, meshesLoaded,
                   uniforms, disk, glVars, status, ub, lastXform, lastDraw,
                   lastSelect, loadLog, calls>>

\* SetShaderMaterial: no test of m_pShaderManager before the five stores.
SetShaderMaterial(materialTag, g, fault) ==
    /\ status = "running"
    /\ lastCall' = Call("SetShaderMaterial", materialTag, "", TRUE, 0)
    /\ IF Len(m_objectMaterials) > 0
       THEN LET r == FindMaterial(materialTag, UninitMaterial(g)) IN
            IF r.ret
            THEN IF m_pShaderManager = "NULL"
                 THEN NullSink(fault) /\ UNCHANGED uniforms
                 ELSE /\ uniforms' = PushMaterial(uniforms, r.material)
                      /\ UNCHANGED <<status, ub>>
            ELSE UNCHANGED <<uniforms, status, ub>>
       ELSE UNCHANGED <<uniforms, status, ub>>
    /\ UNCHANGED <<m_pShaderManager, texVars, m_objectMaterials, meshesLoaded,
                   disk, glVars, histVars, loadLog, calls>>

SetShaderColor(currentColor) ==
    /\ status = "running"
    /\ lastCall' = Call("SetShaderColor", "", "", TRUE, 0)
    /\ lastSelect' = "color"
    /\ uniforms' = IF m_pShaderManager # "NULL"
                   THEN ShaderColorUniforms(uniforms, currentColor)
                   ELSE uniforms
    /\ UNCHANGED <<m_pShaderManager, texVars, m_objectMaterials, meshesLoaded,
                   disk, glVars, status, ub, lastXform, lastDraw, outMaterial,
                   loadLog, calls>>

SetShaderTexture(textureTag) ==
    /\ status = "running"
    /\ lastCall' = Call("SetShaderTexture", textureTag, "", TRUE, 0)
    /\ lastSelect' = "texture"
    /\ uniforms' = IF m_pShaderManager # "NULL"
                   THEN ShaderTextureUniforms(uniforms, textureTag)
                   ELSE uniforms
    /\ UNCHANGED <<m_pShaderManager, texVars, m_objectMaterials, meshesLoaded,
                   disk, glVars, status, ub, lastXform, lastDraw, outMaterial,
                   loadLog, calls>>

SetTextureUVScale(u, v) ==
    /\ status = "running"
    /\ lastCall' = Call("SetTextureUVScale", "", "", TRUE, 0)
    /\ uniforms' = IF m_pShaderManager # "NULL"
                   THEN SetUniform(uniforms, "UVscale", <<u, v>>)
                   ELSE uniforms
    /\ UNCHANGED <<m_pShaderManager, texVars, m_objectMaterials, meshesLoaded,
                   disk, glVars, status, ub, histVars, loadLog, calls>>

SetTransformations(scaleXYZ, Xdeg, Ydeg, Zdeg, positionXYZ) ==
    /\ status = "running"
    /\ lastCall' = Call("SetTransformations", "", "", TRUE, 0)
    /\ lastXform' = <<scaleXYZ, Xdeg, Ydeg, Zdeg, positionXYZ>>
    /\ uniforms' = IF m_pShaderManager # "NULL"
                   THEN SetUniform(uniforms, "model",
                            ModelMatrix(scaleXYZ, Xdeg, Ydeg, Zdeg, positionXYZ))
                   ELSE uniforms
    /\ UNCHANGED <<m_pShaderManager, texVars, m_objectMaterials, meshesLoaded,
                   disk, glVars, status, ub, lastDraw, lastSelect, outMaterial,
                   loadLog, calls>>

\* SetupSceneLights: no test of m_pShaderManager.
SetupSceneLights(fault) ==
    /\ status = "running"
    /\ lastCall' = Call("SetupSceneLights", "", "", TRUE, 0)
    /\ IF m_pShaderManager = "NULL"
       THEN NullSink(fault) /\ UNCHANGED uniforms
       ELSE uniforms' = PushLights(uniforms) /\ UNCHANGED <<status, ub>>
    /\ UNCHANGED <<m_pShaderManager, texVars, m_objectMaterials, meshesLoaded,
                   disk, glVars, histVars, loadLog, calls>>

\* The value of the uniform name, or absent when it was never set.
UniformOr(name, absent) ==
    IF name \in DOMAIN uniforms THEN uniforms[name] ELSE absent

\* m_basicMeshes->Draw<mesh>Mesh(): the draw call reads the uniforms (a
\* uniform that was never set reads as 0).
DrawMesh(mesh) ==
    /\ status = "running"
    /\ lastCall' = Call("DrawMesh", mesh, "", TRUE, 0)
    /\ lastDraw' = [mesh |-> mesh, useTexture |-> UniformOr("bUseTexture", 0)]
    /\ UNCHANGED <<m_pShaderManager, texVars, m_objectMaterials, meshesLoaded,
                   uniforms, disk, glVars, status, ub, lastXform, lastSelect,
                   outMaterial, loadLog, calls>>

\* The mesh provider: each primitive kind has a Load<Shape>Mesh of its own,
\* and Draw<Shape>Mesh draws the buffer that Load<Shape>Mesh uploaded.
MeshDrawnBy(mesh) ==
    mesh

\* The meshes PrepareScene loads, in order.
PreparedMeshes ==
    {"Plane", "Torus", "Sphere", "Cylinder", "Box", "TaperedCylinder"}

\* PrepareScene: LoadSceneTextures, DefineObjectMaterials, SetupSceneLights,
\* then the six Load...Mesh calls; a crash ends it where it happens.
PrepareScene(oob, g, fault) ==
    /\ status = "running"
    /\ calls.scene < MaxSceneLoads
    /\ calls.define < MaxDefineCalls
    /\ lastCall' = Call("PrepareScene", "", "", TRUE, 0)
    /\ calls' = [calls EXCEPT !.scene = @ + 1, !.define = @ + 1]
    /\ LET s == LoadSceneTexturesOn(TexState, oob)
           lightsFault == s.status = "running" /\ m_pShaderManager = "NULL"
           dead == s.status # "running" \/ (lightsFault /\ fault = "crash")
       IN /\ StoreTex([s EXCEPT !.ub = s.ub \/ lightsFault,
                                !.status = IF dead THEN "crashed" ELSE "running"])
          /\ m_objectMaterials' =
                IF s.status = "running"
                THEN DefineObjectMaterialsOn(m_objectMaterials, g)
                ELSE m_objectMaterials
          /\ uniforms' = IF s.status = "running" /\ ~lightsFault
                         THEN PushLights(uniforms) ELSE uniforms
          /\ meshesLoaded' = IF dead THEN meshesLoaded
                             ELSE meshesLoaded \cup PreparedMeshes
    /\ UNCHANGED <<m_pShaderManager, disk, histVars>>

---------------------------------------------------------------------------
(* RenderScene: the calls it makes, in order *)

CallTransform(scaleXYZ, Xdeg, Ydeg, Zdeg, positionXYZ) ==
    [op |-> "SetTransformations", tag |-> "",
     args |-> <<scaleXYZ, Xdeg, Ydeg, Zdeg, positionXYZ>>]

CallUVScale(u, v) ==
    [op |-> "SetTextureUVScale", tag |-> "", args |-> <<u, v>>]

CallTexture(textureTag) ==
    [op |-> "SetShaderTexture", tag |-> textureTag, args |-> <<>>]

CallMaterial(materialTag) ==
    [op |-> "SetShaderMaterial", tag |-> materialTag, args |-> <<>>]

CallColor(currentColor) ==
    [op |-> "SetShaderColor", tag |-> "", args |-> currentColor]

CallDraw(mesh) ==
    [op |-> "DrawMesh", tag |-> mesh, args |-> <<>>]

\* A faulty variant of RenderScript: the second object is drawn without a
\* SetTransformations call of its own.
RenderScript_InheritedTransform ==
    <<
       CallTransform(<<20000, 1000, 10000>>, 0, 0, 0, <<0, 0, 0>>),
       CallUVScale(1000, 1000), CallTexture("floor"),
       CallMaterial("wood"), CallDraw("Plane"),
       CallUVScale(1000, 1000), CallTexture("island stand"),
       CallMaterial("walling"), CallDraw("Box")
    >>

\* A faulty variant of RenderScript: a texture tag and a material tag that
\* the preparation never registers.
RenderScript_UnknownTags ==
    <<
       CallTransform(<<20000, 1000, 10000>>, 0, 0, 0, <<0, 0, 0>>),
       CallUVScale(1000, 1000), CallTexture("floor"),
       CallMaterial("wood"), CallDraw("Plane"),
       CallTransform(<<12000, 7000, 5000>>, 0, 0, 0, <<0, 0, 0>>),
       CallUVScale(1000, 1000), CallTexture("granite"),
       CallMaterial("stone"), CallDraw("Box")
    >>

\* The body of RenderScene, one object after the other: scale and position
\* in thousandths, angles in degrees.  The flags of DrawCylinderMesh (which
\* of its faces are drawn) are left out.
RenderScript ==
    <<
       CallTransform(<<20000, 1000, 10000>>, 0, 0, 0, <<0, 0, 0>>),
       CallUVScale(1000, 1000), CallTexture("floor"),
       CallMaterial("wood"), CallDraw("Plane"),
       CallTransform(<<12000, 7000, 5000>>, 0, 0, 0, <<0, 0, 0>>),
       CallUVScale(1000, 1000), CallTexture("island stand"),
       CallMaterial("walling"), CallDraw("Box"),
       CallTransform(<<14000, 300, 6000>>, 0, 0, 0, <<0, 3510, 0>>),
       CallUVScale(1000, 1000), CallTexture("island top"),
       CallMaterial("glass"), CallDraw("Box"),
       CallTransform(<<2000, 100, 2000>>, 0, 0, 0, <<0, 3600, 0>>),
       CallUVScale(1000, 1000), CallTexture("stand base"),
       CallMaterial("wood"), CallDraw("Cylinder"),
       CallTransform(<<2000, 2000, 1000>>, 90, 0, 0, <<0, 3700, 0>>),
       CallUVScale(1000, 1000), CallTexture("bottom torus"),
       CallMaterial("wood"), CallDraw("Torus"),
       CallTransform(<<2000, 2000, 1000>>, 90, 0, 0, <<0, 3800, 0>>),
       CallUVScale(1000, 1000), CallTexture("top torus"),
       CallMaterial("wood"), CallDraw("Torus"),
       CallTransform(<<60, 150, 60>>, 0, 0, 0, <<0, 3700, 1250>>),
       CallUVScale(1000, 1000), CallTexture("candle snuffer"),
       CallMaterial("metal"), CallDraw("Cylinder"),
       CallTransform(<<50, 70, 50>>, 0, 0, 0, <<0, 3880, 1250>>),
       CallUVScale(1000, 1000), CallTexture("candle snuffer"),
       CallMaterial("metal"), CallDraw("Box"),
       CallTransform(<<500, 25, 25>>, 0, 0, 160, <<250, 3800, 1250>>),
       CallUVScale(1000, 1000), CallTexture("candle snuffer"),
       CallMaterial("metal"), CallDraw("Box"),
       CallTransform(<<1000, 1000, 1000>>, 0, 0, 0, <<250, 4600, -650>>),
       CallMaterial("glass"), CallColor(<<700, 700, 800, 300>>),
       CallDraw("Sphere"),
       CallTransform(<<500, 450, 500>>, 0, 0, 0, <<250, 5450, -650>>),
       CallMaterial("glass"), CallColor(<<700, 700, 800, 300>>),
       CallDraw("Cylinder"),
       CallTransform(<<900, 900, 900>>, 180, 0, 0, <<250, 4900, -650>>),
       CallMaterial("glass"), CallColor(<<830, 940, 976, 700>>),
       CallDraw("HalfSphere"),
       CallTransform(<<550, 1250, 550>>, 0, 0, 0, <<-950, 3720, 750>>),
       CallMaterial("ceramic"), CallTexture("pottery"),
       CallUVScale(1000, 1000), CallDraw("Cylinder"),
       CallTransform(<<570, 50, 570>>, 0, 0, 0, <<-950, 4960, 750>>),
       CallMaterial("ceramic"), CallTexture("pottery"),
       CallUVScale(500, 500), CallDraw("Sphere"),
       CallTransform(<<350, 350, 350>>, 0, 0, 0, <<950, 4000, 700>>),
       CallMaterial("leather"), CallTexture("fruit"),
       CallUVScale(500, 500), CallDraw("Sphere"),
       CallTransform(<<300, 500, 300>>, 0, 0, 0, <<250, 3700, 700>>),
       CallMaterial("glass"), CallColor(<<700, 700, 800, 400>>),
       CallDraw("Cylinder"),
       CallTransform(<<305, 305, 305>>, 0, 0, 0, <<250, 3750, 700>>),
       CallTexture("paper"), CallUVScale(1000, 1000),
       CallMaterial("parchment"), CallDraw("Cylinder"),
       CallTransform(<<290, 350, 290>>, 0, 0, 0, <<250, 3700, 700>>),
       CallTexture("wax"), CallUVScale(1000, 1000),
       CallMaterial("ceramic"), CallDraw("Cylinder"),
       CallTransform(<<30, 120, 30>>, 0, 0, 0, <<250, 4050, 700>>),
       CallTexture("candle snuffer"), CallUVScale(1000, 1000),
       CallMaterial("metal"), CallDraw("Box")
    >>

\* The matrix SetTransformations pushes for a scene object.  The scene's
\* scales are fractions and one of its angles (160 degrees) is no quarter
\* turn, so the product is kept as a term over its five arguments.
SceneModelMatrix(args) ==
    <<"translation * rotationX * rotationY * rotationZ * scale", args>>

\* SetTransformations as RenderScene calls it.
RenderSetTransformations(args) ==
    /\ status = "running"
    /\ lastCall' = Call("SetTransformations", "", "", TRUE, 0)
    /\ lastXform' = args
    /\ uniforms' = IF m_pShaderManager # "NULL"
                   THEN SetUniform(uniforms, "model", SceneModelMatrix(args))
                   ELSE uniforms
    /\ UNCHANGED <<m_pShaderManager, texVars, m_objectMaterials, meshesLoaded,
                   disk, glVars, status, ub, lastDraw, lastSelect, outMaterial,
                   loadLog, calls>>

\* The calls logged since the previous draw, c appended; a draw closes the
\* log and the call after it starts a new one.
Logged(log, c) ==
    IF log # <<>> /\ log[Len(log)] = "DrawMesh"
    THEN <<c.op>>
    ELSE Append(log, c.op)

\* RenderScene is entered: its locals are declared, nothing is called yet.
RenderScene ==
    /\ status = "running"
    /\ pc = 0
    /\ pc' = 1
    /\ renderLog' = <<>>
    /\ lastCall' = Call("RenderScene", "", "", TRUE, 0)
    /\ UNCHANGED <<m_pShaderManager, texVars, m_objectMaterials, meshesLoaded,
                   uniforms, disk, glVars, status, ub, histVars, loadLog, calls>>

\* The next call of RenderScene; RenderScene returns after its last call,
\* and a crash stops it where it is.
RenderSceneStep ==
    /\ pc \in 1..Len(RenderScript)
    /\ LET c == RenderScript[pc]
       IN /\ \/ c.op = "SetTransformations" /\ RenderSetTransformations(c.args)
             \/ c.op = "SetTextureUVScale" /\ SetTextureUVScale(c.args[1], c.args[2])
             \/ c.op = "SetShaderTexture" /\ SetShaderTexture(c.tag)
             \/ c.op = "SetShaderColor" /\ SetShaderColor(c.args)
             \/ c.op = "SetShaderMaterial" /\
                   \E g \in GarbageFloats, fault \in Faults :
                       SetShaderMaterial(c.tag, g, fault)
             \/ c.op = "DrawMesh" /\ DrawMesh(c.tag)
          /\ pc' = IF status' # "running" THEN pc
                   ELSE IF pc = Len(RenderScript) THEN 0 ELSE pc + 1
          /\ renderLog' = Logged(renderLog, c)

\* A call made from outside RenderScene.
Outside ==
    pc = 0 /\ UNCHANGED renderVars

---------------------------------------------------------------------------
(* Arguments the callers pass *)

Colors == { <<700, 700, 800, 300>>, <<830, 940, 976, 700>> }
MaterialTags == {"metal", "ceramic", "glass", "plastic"}
TextureTags == CallerTags \cup {AbsentTag}
LookupTags == TextureTags \cup {"island top", "steel"}
UVScales == { <<1000, 1000>>, <<500, 500>> }
DrawnMeshes == {"Plane", "Box"}
Scales == { <<1, 1, 1>>, <<2, 1, 1>>, <<2, 3, 5>> }
Angles == {0, 90, 180, 270}
Positions == { <<0, 0, 0>>, <<1, 0, 0>>, <<3, -2, 7>> }

---------------------------------------------------------------------------
(* Specifications *)

\* The disk on which every scene image is an RGB file.
PlainDisk ==
    [f \in Files |-> IF f \in CallerFiles THEN CallerDisk(f) ELSE 3]

\* The texture registry through its whole life.
Next ==
    \/ Outside /\ \E f \in CallerFiles, t \in CallerTags, oob \in Faults :
          CreateGLTexture(f, t, oob, MaxCreateCalls)
    \/ Outside /\ BindGLTextures
    \/ Outside /\ DestroyGLTextures
    \/ Outside /\ \E oob \in Faults : LoadSceneTextures(oob)
    \/ Outside /\ \E oob \in Faults, g \in GarbageFloats, fault \in Faults :
          PrepareScene(oob, g, fault)

Spec == Init /\ [][Next]_vars

\* Loads and lookups of the texture registry (no operation of these uses
\* the shader manager).
InitLookup ==
    Init /\ m_pShaderManager = "shader"

NextLookup ==
    \/ Outside /\ \E f \in CallerFiles, t \in CallerTags, oob \in Faults :
          CreateGLTexture(f, t, oob, MaxCreateCalls)
    \/ Outside /\ \E oob \in Faults : LoadSceneTextures(oob)
    \/ Outside /\ \E t \in LookupTags : FindTextureSlotCall(t)
    \/ Outside /\ \E t \in LookupTags : FindTextureIDCall(t)

SpecLookup == InitLookup /\ [][NextLookup]_vars

\* Texture or flat colour: the selection a draw call sees.
NextSelect ==
    \/ Outside /\ \E f \in CallerFiles, t \in CallerTags, oob \in Faults :
          CreateGLTexture(f, t, oob, MaxShaderTextures)
    \/ Outside /\ \E c \in Colors : SetShaderColor(c)
    \/ Outside /\ \E t \in TextureTags : SetShaderTexture(t)
    \/ Outside /\ \E uv \in UVScales : SetTextureUVScale(uv[1], uv[2])
    \/ Outside /\ \E m \in DrawnMeshes : DrawMesh(m)

SpecSelect == Init /\ [][NextSelect]_vars

\* The material registry and the material uniforms (no image is loaded).
InitMaterial ==
    Init /\ disk = PlainDisk

NextMaterial ==
    \/ Outside /\ \E g \in GarbageFloats : DefineObjectMaterials(g)
    \/ Outside /\ \E t \in MaterialTags, g \in GarbageFloats : FindMaterialCall(t, g)
    \/ Outside /\ \E t \in MaterialTags, g \in GarbageFloats, fault \in Faults :
          SetShaderMaterial(t, g, fault)
    \/ Outside /\ \E c \in Colors : SetShaderColor(c)
    \/ Outside /\ \E fault \in Faults : SetupSceneLights(fault)

SpecMaterial == InitMaterial /\ [][NextMaterial]_vars

\* The transform composer (no image is loaded).
NextTransform ==
    Outside /\
    \E s \in Scales, rx \in Angles, ry \in Angles, rz \in Angles, p \in Positions :
        SetTransformations(s, rx, ry, rz, p)

SpecTransform == InitMaterial /\ [][NextTransform]_vars

\* Preparation and frames: PrepareScene, then RenderScene call by call.
NextRender ==
    \/ Outside /\ \E oob \in Faults, g \in GarbageFloats, fault \in Faults :
          PrepareScene(oob, g, fault)
    \/ RenderScene
    \/ RenderSceneStep

SpecRender == Init /\ [][NextRender]_vars

\* The six operations that write to the shader manager, with either
\* constructor argument.
NextSink ==
    \/ Outside /\ \E g \in GarbageFloats : DefineObjectMaterials(g)
    \/ Outside /\ \E rx \in {0, 90} :
          SetTransformations(<<2, 1, 1>>, rx, 0, 0, <<1, 0, 0>>)
    \/ Outside /\ \E c \in Colors : SetShaderColor(c)
    \/ Outside /\ SetShaderTexture(AbsentTag)
    \/ Outside /\ \E uv \in UVScales : SetTextureUVScale(uv[1], uv[2])
    \/ Outside /\ \E g \in GarbageFloats, fault \in Faults :
          SetShaderMaterial("metal", g, fault)
    \/ Outside /\ \E fault \in Faults : SetupSceneLights(fault)

SpecSink == InitMaterial /\ [][NextSink]_vars

\* Loading and binding: the texture units BindGLTextures writes.
NextBind ==
    \/ Outside /\ \E f \in CallerFiles, t \in CallerTags, oob \in Faults :
          CreateGLTexture(f, t, oob, MaxCreateCalls)
    \/ Outside /\ BindGLTextures
    \/ Outside /\ \E oob \in Faults : LoadSceneTextures(oob)

SpecBind == InitLookup /\ [][NextBind]_vars

---------------------------------------------------------------------------
(* Properties *)

LoggedTags == { loadLog[i][1] : i \in 1..Len(loadLog) }

\* The position in loadLog of the first successful load with the tag.
FirstLoadOf(tag) ==
    CHOOSE j \in 1..Len(loadLog) :
        /\ loadLog[j][1] = tag
        /\ \A k \in 1..(j - 1) : loadLog[k][1] # tag

RegistryUnchanged ==
    /\ m_loadedTextures' = m_loadedTextures
    /\ m_textureIDs' = m_textureIDs
    /\ m_textureOverflow' = m_textureOverflow

\* C4: a CreateGLTexture call on a file that does not decode, or that decodes
\* to a channel count other than 3 or 4, returns false and leaves the count
\* and every entry of the registry as they were.
C4_FailedLoadKeepsRegistry ==
    [][ (lastCall'.op = "CreateGLTexture" /\ disk[lastCall'.file] \notin {3, 4})
            => (~lastCall'.ok /\ RegistryUnchanged) ]_vars

\* C4 witness: with two textures registered, a load of the one-channel image
\* has just failed.
C4_Witness ==
    /\ lastCall.op = "CreateGLTexture"
    /\ disk[lastCall.file] = 1
    /\ ~lastCall.ok
    /\ m_loadedTextures = 2

\* C5 as stated: the loaded-texture count never exceeds 16, and the i-th
\* successful load sits in slot i - 1 of the 16-slot array.
C5_AtMostSixteenSlots ==
    /\ m_loadedTextures <= MaxTextureSlots
    /\ Len(loadLog) = m_loadedTextures
    /\ \A i \in 1..Len(loadLog) :
          /\ i - 1 < MaxTextureSlots
          /\ m_textureIDs[i].tag = loadLog[i][1]

\* C10 as stated: a step other than DestroyGLTextures leaves every registered
\* entry's (tag, ID) as it was, and a DestroyGLTextures step releases every
\* texture name a successful load allocated and allocates none.
C10_ImmutableThenReleased ==
    [][ /\ lastCall'.op # "DestroyGLTextures" =>
              \A p \in 1..MaxTextureSlots :
                  p <= m_loadedTextures => m_textureIDs'[p] = m_textureIDs[p]
        /\ lastCall'.op = "DestroyGLTextures" =>
              /\ glNextName' = glNextName
              /\ \A i \in 1..Len(loadLog) : loadLog[i][2] \in glDeleted' ]_vars

\* The uniform name has the same value, or is as unset, after the step.
SameUniform(name) ==
    /\ (name \in DOMAIN uniforms') = (name \in DOMAIN uniforms)
    /\ name \in DOMAIN uniforms => uniforms'[name] = uniforms[name]

\* No entry of the material registry carries the tag.
UnknownMaterial(tag) ==
    \A i \in 1..Len(m_objectMaterials) : m_objectMaterials[i].tag # tag

\* C2 as stated: for a tag that matches no entry, FindMaterial returns false,
\* and SetShaderMaterial leaves every uniform as it was.
C2_UnknownMaterialNotFound ==
    [][ /\ (lastCall'.op = "FindMaterial" /\ UnknownMaterial(lastCall'.tag))
              => ~lastCall'.ok
        /\ (lastCall'.op = "SetShaderMaterial" /\ UnknownMaterial(lastCall'.tag))
              => uniforms' = uniforms ]_vars

\* C3 as stated: a SetShaderTexture call whose tag is not in the texture
\* registry leaves bUseTexture and objectTexture as they were.
C3_LookupMissKeepsShaderState ==
    [][ (lastCall'.op = "SetShaderTexture"
            /\ FindTextureSlot(lastCall'.tag) = NotFound)
          => (SameUniform("bUseTexture") /\ SameUniform("objectTexture")) ]_vars

\* The position (1-based) of the first material entry with the tag.
FirstMaterialOf(tag) ==
    CHOOSE i \in 1..Len(m_objectMaterials) :
        /\ m_objectMaterials[i].tag = tag
        /\ \A j \in 1..(i - 1) : m_objectMaterials[j].tag # tag

SameAttributes(a, b) ==
    /\ a.ambientColor = b.ambientColor
    /\ a.ambientStrength = b.ambientStrength
    /\ a.diffuseColor = b.diffuseColor
    /\ a.specularColor = b.specularColor
    /\ a.shininess = b.shininess

\* C6: when several entries share a tag, FindMaterial returns true and hands
\* out the attributes of the first-registered entry with that tag.
C6_FirstRegisteredMaterialWins ==
    (lastCall.op = "FindMaterial" /\ ~UnknownMaterial(lastCall.tag)) =>
        /\ lastCall.ok
        /\ SameAttributes(outMaterial, m_objectMaterials[FirstMaterialOf(lastCall.tag)])

\* C6 witness: "ceramic" is registered twice with different shininess, and
\* FindMaterial("ceramic") has just handed out the first entry's.
C6_Witness ==
    /\ Len(m_objectMaterials) = 14
    /\ m_objectMaterials[4].tag = "ceramic" /\ m_objectMaterials[11].tag = "ceramic"
    /\ m_objectMaterials[4].shininess # m_objectMaterials[11].shininess
    /\ lastCall.op = "FindMaterial" /\ lastCall.tag = "ceramic"
    /\ outMaterial.shininess = m_objectMaterials[4].shininess

\* C7: with a shader manager, the texture-use flag a draw call sees is 0 when
\* the last of the SetShaderColor / SetShaderTexture calls before it was
\* SetShaderColor and 1 when it was SetShaderTexture.
C7_LastSelectionWins ==
    (m_pShaderManager = "shader" /\ lastCall.op = "DrawMesh" /\ lastSelect # "none")
        => lastDraw.useTexture = (IF lastSelect = "texture" THEN 1 ELSE 0)

\* C7 witness: a texture was selected, then a flat colour, then a mesh was
\* drawn, and the draw saw the flag at 0.
C7_Witness ==
    /\ m_pShaderManager = "shader"
    /\ lastCall.op = "DrawMesh"
    /\ lastSelect = "color"
    /\ "objectTexture" \in DOMAIN uniforms
    /\ lastDraw.useTexture = 0

(* Points moved one transformation at a time *)

ScalePoint(s, p) ==
    <<s[1] * p[1], s[2] * p[2], s[3] * p[3]>>

RotateXPoint(d, p) ==
    <<p[1], p[2] * CosDeg(d) - p[3] * SinDeg(d), p[2] * SinDeg(d) + p[3] * CosDeg(d)>>

RotateYPoint(d, p) ==
    <<p[1] * CosDeg(d) + p[3] * SinDeg(d), p[2], p[3] * CosDeg(d) - p[1] * SinDeg(d)>>

RotateZPoint(d, p) ==
    <<p[1] * CosDeg(d) - p[2] * SinDeg(d), p[1] * SinDeg(d) + p[2] * CosDeg(d), p[3]>>

TranslatePoint(t, p) ==
    <<p[1] + t[1], p[2] + t[2], p[3] + t[3]>>

TestPoints == { <<0, 0, 0>>, <<1, 0, 0>>, <<0, 1, 0>>, <<0, 0, 1>>, <<1, 2, 3>> }

\* SetTransformations has just pushed a matrix.
Pushed ==
    /\ m_pShaderManager = "shader"
    /\ lastCall.op = "SetTransformations"

\* The rotation of the product RotationX x RotationY x RotationZ on a point.
RotateXYZProduct(a, p) ==
    RotateXPoint(a[2], RotateYPoint(a[3], RotateZPoint(a[4], p)))

\* C8: the matrix pushed as "model" is Translation x RotationX x RotationY x
\* RotationZ x Scale (it is affine and acts on every point as that product
\* does: scale, then the rotations, then the translation), and with
\* scale (2,1,1), rotation (0,0,90), translation (1,0,0) it maps (1,0,0) to
\* (1,2,0).
C8_ModelIsTRS ==
    Pushed =>
        LET a == lastXform
            M == uniforms["model"]
        IN /\ M[4] = <<0, 0, 0, 1>>
           /\ \A p \in TestPoints :
                 Mat4Point(M, p) =
                     TranslatePoint(a[5], RotateXYZProduct(a, ScalePoint(a[1], p)))
           /\ a = << <<2, 1, 1>>, 0, 0, 90, <<1, 0, 0>> >>
                 => Mat4Point(M, <<1, 0, 0>>) = <<1, 2, 0>>

\* C8 witness: the claim's example has been pushed and maps (1,0,0) to (1,2,0).
C8_Witness ==
    /\ Pushed
    /\ lastXform = << <<2, 1, 1>>, 0, 0, 90, <<1, 0, 0>> >>
    /\ Mat4Point(uniforms["model"], <<1, 0, 0>>) = <<1, 2, 0>>

\* More than one of the three rotation angles is not a whole turn.
SeveralRotations(a) ==
    Cardinality({ i \in 2..4 : a[i] % 360 # 0 }) > 1

\* C9 as stated: with several rotations, the pushed matrix moves a point by
\* the scale, then the rotation about X, then about Y, then about Z, then
\* the translation.
C9_RotatesXThenYThenZ ==
    (Pushed /\ SeveralRotations(lastXform)) =>
        \A p \in TestPoints :
            Mat4Point(uniforms["model"], p) =
                TranslatePoint(lastXform[5],
                    RotateZPoint(lastXform[4],
                        RotateYPoint(lastXform[3],
                            RotateXPoint(lastXform[2], ScalePoint(lastXform[1], p)))))

\* C9 amended: with several rotations, the pushed matrix moves a point by the
\* scale, then the rotation about Z, then about Y, then about X, then the
\* translation.
C9_RotatesZThenYThenX ==
    (Pushed /\ SeveralRotations(lastXform)) =>
        \A p \in TestPoints :
            LET scaled == ScalePoint(lastXform[1], p)
                aboutZ == RotateZPoint(lastXform[4], scaled)
                aboutY == RotateYPoint(lastXform[3], aboutZ)
                aboutX == RotateXPoint(lastXform[2], aboutY)
            IN Mat4Point(uniforms["model"], p) = TranslatePoint(lastXform[5], aboutX)

\* C9 witness: X = 90 and Z = 90 degrees were pushed; the unit point (1,0,0)
\* goes to (0,0,1) (about Z first, then about X), not to (0,1,0).
C9_Witness ==
    /\ Pushed
    /\ lastXform = << <<1, 1, 1>>, 90, 0, 90, <<0, 0, 0>> >>
    /\ Mat4Point(uniforms["model"], <<1, 0, 0>>) = <<0, 0, 1>>

---------------------------------------------------------------------------
(* The texture units *)

\* C11: a BindGLTextures call (the registry within its array) leaves, for
\* every i below the number of loaded textures, the ID of registry entry i
\* bound on texture unit i, leaves every other unit as it was and leaves the
\* registry as it was; a second call right after the first changes nothing.
C11_BindIsUnitPerSlotAndIdempotent ==
    [][ (lastCall'.op = "BindGLTextures" /\ ~ub) =>
          /\ \A i \in 0..(m_loadedTextures - 1) :
                 /\ i \in DOMAIN glBound'
                 /\ glBound'[i] = SlotOf(TexState, i).ID
          /\ \A u \in DOMAIN glBound' :
                 u >= m_loadedTextures =>
                    u \in DOMAIN glBound /\ glBound'[u] = glBound[u]
          /\ UNCHANGED texVars
          /\ (lastCall.op = "BindGLTextures" => UNCHANGED glVars) ]_vars

\* Two textures are registered and BindGLTextures has put each on its unit.
C11_Witness ==
    /\ lastCall.op = "BindGLTextures"
    /\ ~ub
    /\ m_loadedTextures = 2
    /\ glBound[0] = SlotOf(TexState, 0).ID
    /\ glBound[1] = SlotOf(TexState, 1).ID
    /\ glBound[0] # glBound[1]

---------------------------------------------------------------------------
(* The tags of the scene's textures *)

\* Every scene image decodes with three or four channels.
AllSceneImagesLoad ==
    \A f \in SceneFiles : disk[f] \in {3, 4}

\* C12: the tag is a unique key: once LoadSceneTextures has run with every
\* load succeeding (and no other load was made), no two registered entries
\* carry the same tag.
C12_SceneTagsAreUnique ==
    (calls.scene > 0 /\ calls.create = 0 /\ AllSceneImagesLoad /\ ~ub) =>
        \A i, j \in 0..(m_loadedTextures - 1) :
            i # j => SlotOf(TexState, i).tag # SlotOf(TexState, j).tag

---------------------------------------------------------------------------
(* RenderScene *)

\* The calls RenderScene made for the object it has just drawn.
ObjectCalls ==
    SubSeq(renderLog, 1, Len(renderLog) - 1)

\* RenderScene's last call was a draw.
JustDrawn ==
    renderLog # <<>> /\ renderLog[Len(renderLog)] = "DrawMesh"

\* C13: each draw of RenderScene is preceded, since the previous draw (or
\* since RenderScene began), by exactly one SetTransformations call, and
\* that call comes before a SetShaderTexture or SetShaderColor call and
\* before a SetShaderMaterial call made for the same object.
C13_DrawFollowsItsOwnSetup ==
    JustDrawn =>
        LET n == Len(ObjectCalls)
            transforms == {i \in 1..n : ObjectCalls[i] = "SetTransformations"}
        IN /\ Cardinality(transforms) = 1
           /\ \A i \in transforms :
                 /\ \E j \in (i + 1)..n :
                        ObjectCalls[j] \in {"SetShaderTexture", "SetShaderColor"}
                 /\ \E k \in (i + 1)..n :
                        ObjectCalls[k] = "SetShaderMaterial"

\* The half-sphere has been drawn after its transform, material and colour.
C13_Witness ==
    /\ JustDrawn
    /\ lastDraw.mesh = "HalfSphere"
    /\ ObjectCalls = <<"SetTransformations", "SetShaderMaterial", "SetShaderColor">>

\* PrepareScene has run to its end with every image load succeeding.
PreparedWithAllImages ==
    calls.scene > 0 /\ AllSceneImagesLoad

\* C14: after a PrepareScene in which every image load succeeds, every
\* texture tag RenderScene passes to SetShaderTexture is found by
\* FindTextureSlot in a slot from 0 to 15 (and that slot is the sampler
\* pushed), and every material tag RenderScene passes to SetShaderMaterial
\* is the tag of a defined material.
C14_SceneTagsResolve ==
    /\ (PreparedWithAllImages /\ pc # 0 /\ lastCall.op = "SetShaderTexture") =>
          /\ FindTextureSlot(lastCall.tag) \in 0..(MaxTextureSlots - 1)
          /\ m_pShaderManager # "NULL" =>
                uniforms["objectTexture"] = FindTextureSlot(lastCall.tag)
    /\ (PreparedWithAllImages /\ pc # 0 /\ lastCall.op = "SetShaderMaterial") =>
          ~UnknownMaterial(lastCall.tag)

\* After preparation RenderScene has selected the texture "wax", found in
\* slot 12, and goes on to the material "ceramic".
C14_Witness ==
    /\ PreparedWithAllImages
    /\ pc # 0
    /\ lastCall.op = "SetShaderTexture"
    /\ lastCall.tag = "wax"
    /\ m_pShaderManager # "NULL"
    /\ uniforms["objectTexture"] = 12
    /\ RenderScript[pc + 1] = CallMaterial("ceramic")

\* C18 as stated: every primitive kind RenderScene draws has had its
\* Load<Shape>Mesh invoked by the PrepareScene that ran before RenderScene.
C18_DrawnMeshesAreLoaded ==
    (calls.scene > 0 /\ JustDrawn /\ lastCall.op = "DrawMesh") =>
        MeshDrawnBy(lastCall.tag) \in meshesLoaded

---------------------------------------------------------------------------
(* The null shader manager *)

\* C15 as stated: with a null shader manager every operation that writes
\* to the shader manager is a no-op that never dereferences the null
\* pointer.
C15_NullSinkIsNoOp ==
    m_pShaderManager = "NULL" =>
        /\ ~ub
        /\ status = "running"
        /\ uniforms = <<>>

---------------------------------------------------------------------------
(* The attributes of the defined materials *)

\* C16 as stated: every entry DefineObjectMaterials appends has all five
\* attributes assigned, so FindMaterial on a defined tag never yields an
\* unassigned attribute.
C16_MaterialsFullyAssigned ==
    /\ \A i \in 1..Len(m_objectMaterials) :
          m_objectMaterials[i].assigned = MaterialAttributes
    /\ (lastCall.op = "FindMaterial" /\ ~UnknownMaterial(lastCall.tag)) =>
          outMaterial.assigned = MaterialAttributes

---------------------------------------------------------------------------
(* The resources of a load *)

\* C17 as stated: on every return of CreateGLTexture after a successful
\* decode (three, four or another number of channels) the image buffer has
\* been freed and every texture name the call generated is registered or
\* released.
C17_DecodedLoadLeaksNothing ==
    [][ (lastCall'.op = "CreateGLTexture" /\ disk[lastCall'.file] # 0 /\ ~ub') =>
          /\ stbiLive' = stbiLive
          /\ \A n \in glNextName..(glNextName' - 1) :
                \/ n \in glDeleted'
                \/ \E i \in 1..m_loadedTextures' : m_textureIDs'[i].ID = n ]_vars

=============================================================================
